---- MODULE Spec2Model ----
(***************************************************************************)
(* Model of the SearchJobDO durable object of grove-domain-tool            *)
(* (worker/src/agents/swarm.ts, lines 367-1508) together with the driver   *)
(* and swarm agents it calls.  One job object is modelled: its SQL store   *)
(* (search_job row, domain_results, search_artifacts), its single alarm,   *)
(* the alarm handler with its suspension points, and the /start, /resume   *)
(* and /cancel request handlers.                                           *)
(*                                                                         *)
(* Scheduling: a Durable Object runs JavaScript single-threaded; another   *)
(* event is delivered only while a handler is suspended at an await on     *)
(* outside I/O (provider, RDAP, pricing, e-mail calls, reading a request   *)
(* body).  sql.exec is synchronous and setAlarm is a storage operation, so *)
(* neither is a suspension point.  Only one alarm() runs at a time.        *)
(* Scores are in hundredths (0.8 is 80), heuristic scores in millionths.   *)
(***************************************************************************)
EXTENDS Integers, Sequences, FiniteSets, TLC

\* ---------------------------------------------------------------- bounds
MaxResumes == 2      \* /resume requests the environment issues past the status check
MaxTokenTotal == 1   \* cap of the cumulative input token counter

\* ------------------------------------------------- configuration (env)
\* parseInt(this.env.MAX_BATCHES || "6", 10), in a deployment that sets it to 2
MAX_BATCHES == 2
\* parseInt(this.env.TARGET_RESULTS || "25", 10), in a deployment that sets it to 1
TARGET_RESULTS == 1

\* ------------------------------------------------------------ the data
Null == "null"

\* the lowercase domain strings of the model
Domains == {"acorn-9.xyz", "oak.com"}

\* String.prototype.toLowerCase on the strings the provider replies contain
toLowerCase(s) ==
  CASE s = "OAK.com" -> "oak.com"
    [] s = "Oak.com" -> "oak.com"
    [] OTHER -> s

\* the domain strings a generator reply can contain for a quiz (the prompt
\* carries business_name): one name for "Acorn", two for "Oak & Acorn"
GeneratorStrings(quiz) ==
  IF quiz.business_name = "Acorn" THEN {"acorn-9.xyz"} ELSE {"acorn-9.xyz", "OAK.com"}

\* the domain strings an evaluator reply can contain for a quiz, requested or not
EvaluatorStrings(quiz) ==
  IF quiz.business_name = "Acorn" THEN {"acorn-9.xyz"} ELSE {"acorn-9.xyz", "Oak.com"}

\* name = parts[0], tld = last part, and the three regular-expression tests
\* of quickEvaluate, for each string of Domains
DomainInfo(d) ==
  CASE d = "acorn-9.xyz" -> [len |-> 7, tld |-> "xyz", hasNumbers |-> TRUE,
                             hasHyphens |-> TRUE, clusters |-> FALSE]
    [] d = "oak.com"     -> [len |-> 3, tld |-> "com", hasNumbers |-> FALSE,
                             hasHyphens |-> FALSE, clusters |-> FALSE]

Max(a, b) == IF a >= b THEN a ELSE b

\* const tldScores = {...}; tldScores[tld] || 0.5   (millionths)
tldScore(tld) ==
  CASE tld = "com" -> 1000000
    [] tld = "co"  ->  900000
    [] tld = "io"  ->  850000
    [] tld = "dev" ->  800000
    [] tld = "app" ->  800000
    [] tld = "me"  ->  750000
    [] tld = "net" ->  700000
    [] tld = "org" ->  700000
    [] OTHER       ->  500000

\* name.length <= 8 ? 1.0 : Math.max(0.3, 1.0 - (name.length - 8) * 0.1)
lengthScore(len) ==
  IF len <= 8 THEN 1000000 ELSE Max(300000, 1000000 - (len - 8) * 100000)

\* the unrounded score of quickEvaluate, in millionths
quickScore(d) ==
  LET i  == DomainInfo(d)
      s0 == (lengthScore(i.len) + tldScore(i.tld)) \div 2
      s1 == IF i.clusters THEN (s0 * 7) \div 10 ELSE s0
      s2 == IF i.hasNumbers THEN (s1 * 8) \div 10 ELSE s1
      s3 == IF i.hasHyphens THEN (s2 * 85) \div 100 ELSE s2
  IN  s3

\* quickEvaluate: score = Math.round(score * 100) / 100, worthChecking = score > 0.4
quickEvaluate(d) ==
  [domain |-> d,
   score |-> (quickScore(d) + 5000) \div 10000,
   worthChecking |-> quickScore(d) > 400000]

\* filterWorthChecking(evaluations, minScore = 0.4)
filterWorthChecking(evaluations) ==
  {e \in evaluations : e.worthChecking /\ e.score >= 40}

\* ---------------------------------------------------------- the state
VARIABLES
  search_job,        \* table search_job: the set of its rows (none or one)
  domain_results,    \* table domain_results: the set of its rows
  search_artifacts,  \* table search_artifacts: its rows in insertion order
  alarm_set,         \* state.storage: an alarm is pending
  pc,                \* where alarm() is suspended, "idle" when it is not running
  batch,             \* the local variables of the running processBatch
  resume_waiting,    \* handleResume calls suspended at await request.json()
  reply,             \* the Response of the request handled last
  resumes_issued,    \* history: /resume requests that passed the status check
  cancel_batch,      \* history: the batch in flight when /cancel was last accepted, else 0
  restarted,         \* history: the object was evicted and constructed again
  agent_call         \* a call of generateCandidates or evaluateDomains taken by
                     \* itself: its arguments, its progress and its result

vars == <<search_job, domain_results, search_artifacts, alarm_set, pc, batch,
          resume_waiting, reply, resumes_issued, cancel_batch, restarted, agent_call>>

store == <<search_job, domain_results, search_artifacts>>
hist == <<resumes_issued, cancel_batch, restarted, agent_call>>

\* POST /start body (quiz_responses) with a client_email: the alarm handler
\* awaits the e-mail call after it decided complete or needs_followup
Quizzes == {[client_email |-> "client@example.com", business_name |-> "Acorn"]}
\* POST /start body without a client_email (no e-mail call), of a business
\* whose prompt yields two domain names
PipelineQuizzes == {[client_email |-> Null, business_name |-> "Oak & Acorn"]}
\* POST /resume bodies (followup_responses)
FollowupBodies == {"different_tld"}
\* POST /resume bodies of a client that answers each follow-up quiz anew
ResumeBodies == {"different_tld", "shorter_names"}
\* usage.inputTokens / usage.outputTokens of a provider response
Usages == {[inputTokens |-> 0, outputTokens |-> 0], [inputTokens |-> 1, outputTokens |-> 2]}
\* what the evaluator model says about one domain (score in hundredths)
EvalChoices == {[score |-> 30, worth_checking |-> TRUE], [score |-> 90, worth_checking |-> TRUE],
                [score |-> 90, worth_checking |-> FALSE]}
\* POST /start body of a job whose evaluator model also answers with scores
\* outside [0, 1]
ScoreQuizzes == {[client_email |-> Null, business_name |-> "Acorn Labs"]}
\* evalData.score is whatever JSON number the model wrote
UnboundedChoices == {[score |-> 150, worth_checking |-> TRUE],
                     [score |-> 0 - 20, worth_checking |-> TRUE]}
EvalChoicesOf(quiz) ==
  IF quiz \in ScoreQuizzes THEN EvalChoices \cup UnboundedChoices ELSE EvalChoices
RdapStatuses == {"available", "registered", "unknown"}
Prices == {2500}
NullPrice == 0 - 1   \* SQL NULL in the price_cents column

NoBatch == [batchNum |-> 0, checked |-> {}, newCandidates |-> {},
            evaluations |-> {}, rdapResults |-> {}]
NoReply == [op |-> "none", code |-> 0]
NoCall == [fn |-> "none"]

\* the object and its storage before any request
NoJob ==
  /\ search_job = {}
  /\ domain_results = {}
  /\ search_artifacts = <<>>
  /\ alarm_set = FALSE
  /\ pc = "idle"
  /\ batch = NoBatch
  /\ resume_waiting = 0
  /\ reply = NoReply
  /\ resumes_issued = 0
  /\ cancel_batch = 0
  /\ restarted = FALSE

Init == NoJob /\ agent_call = NoCall

\* ------------------------------------------------------ store helpers
\* getJob(): SELECT * FROM search_job LIMIT 1; rows.length === 0 -> null
HasJob(sj) == sj # {}
getJob(sj) == CHOOSE r \in sj : TRUE

\* the job's status as a request sees it; "none" when there is no row
JobStatus == IF HasJob(search_job) THEN getJob(search_job).status ELSE "none"
JobBatchNum == IF HasJob(search_job) THEN getJob(search_job).batch_num ELSE 0

\* updateJobStatus(status, error?): UPDATE search_job SET status = ? [, error = ?]
\* (no WHERE clause; the error column is written only when error is truthy)
updateJobStatus(sj, st, err) ==
  IF err # "" /\ err # Null
    THEN {[r EXCEPT !.status = st, !.error = err] : r \in sj}
    ELSE {[r EXCEPT !.status = st] : r \in sj}

\* an incrementBatchNum that adds the batch number to itself
incrementBatchNum_Doubling(sj) == {[r EXCEPT !.batch_num = r.batch_num + r.batch_num] : r \in sj}

\* incrementBatchNum(): UPDATE search_job SET batch_num = batch_num + 1
incrementBatchNum(sj) == {[r EXCEPT !.batch_num = r.batch_num + 1] : r \in sj}

\* an addTokenUsage that stores the usage of the last call instead of adding it
addTokenUsage_Overwrite(sj, u) ==
  {[r EXCEPT !.total_input_tokens = u.inputTokens,
             !.total_output_tokens = u.outputTokens] : r \in sj}

\* addTokenUsage(inputTokens, outputTokens)
addTokenUsage(sj, u) ==
  {[r EXCEPT !.total_input_tokens = r.total_input_tokens + u.inputTokens,
             !.total_output_tokens = r.total_output_tokens + u.outputTokens] : r \in sj}

\* a good-results count that uses the admission threshold 0.4
getGoodResultsCount_Admission(dr) ==
  Cardinality({r \in dr : r.status = "available" /\ r.score >= 40})

\* getGoodResultsCount(): COUNT(*) WHERE status = 'available' AND score >= 0.8
getGoodResultsCount(dr) ==
  Cardinality({r \in dr : r.status = "available" /\ r.score >= 80})

\* getTokenUsage(): the two token counters of the job row
getTokenUsage(sj) ==
  [input |-> getJob(sj).total_input_tokens, output |-> getJob(sj).total_output_tokens]

\* getTotalDomainsChecked(): COUNT(*) FROM domain_results
getTotalDomainsChecked(dr) == Cardinality(dr)

\* getAvailableDomainsCount(): COUNT(*) WHERE status = 'available'
getAvailableDomainsCount(dr) == Cardinality({r \in dr : r.status = "available"})

\* getCheckedDomains(): SELECT domain FROM domain_results
getCheckedDomains(dr) == {r.domain : r \in dr}

\* saveDomainResult: INSERT OR REPLACE on the UNIQUE domain column
saveDomainResult(dr, row) == {r \in dr : r.domain # row.domain} \cup {row}

\* saveArtifact: INSERT INTO search_artifacts
saveArtifact(arts, a) == Append(arts, a)

\* a scheduleAlarm that only logs and sets no alarm
scheduleAlarm_LogOnly(pending, delayMs) == pending

\* the followup_quiz rows of the artifacts table, in insertion order
followupQuizzes(arts) == SelectSeq(arts, LAMBDA a : a.artifact_type = "followup_quiz")

\* created_at DEFAULT (datetime('now')) has a resolution of one second.  Of the
\* created_at column the model keeps what its one reader (handleGetFollowup)
\* can tell: `tied`, whether a followup_quiz row carries the same second as the
\* followup_quiz row before it.  SameSecond is what the clock can give a new row.
SameSecond(arts) == IF followupQuizzes(arts) = <<>> THEN {FALSE} ELSE BOOLEAN

\* scheduleAlarm(delayMs): state.storage.setAlarm(Date.now() + delayMs) replaces
\* any pending alarm; the result is the new value of alarm_set
scheduleAlarm(pending, delayMs) == TRUE

\* processBatch is running (alarm() is suspended at one of its outbound calls)
InBatch == pc \in {"generate", "evaluate", "rdap", "pricing"}

\* an ensureSchema that creates the three tables anew
ensureSchema_Recreate(tables) == <<{}, {}, <<>>>>

\* ensureSchema(): CREATE TABLE IF NOT EXISTS for the three tables.  The tables
\* exist from the first event on (Init is the state after it), and an existing
\* table keeps its rows.
ensureSchema(tables) == tables

\* The runtime evicts the object between events and constructs it again: the
\* fields of the instance are new (initialized = false), suspended request
\* handlers are gone, and the next event runs ensureSchema.  The SQL tables and
\* the alarm belong to state.storage and stay.
restart ==
  /\ pc = "idle"
  /\ search_job' = ensureSchema(store)[1]
  /\ domain_results' = ensureSchema(store)[2]
  /\ search_artifacts' = ensureSchema(store)[3]
  /\ resume_waiting' = 0
  /\ reply' = NoReply
  /\ restarted' = TRUE
  /\ UNCHANGED <<alarm_set, pc, batch, resumes_issued, cancel_batch, agent_call>>

\* ------------------------------------------------- request handlers
\* a handleStart without the existence check: it inserts and answers 201 always
handleStart_NoConflictCheck(quiz) ==
  /\ search_job' = {[status |-> "running", batch_num |-> 0,
                     quiz_responses |-> quiz, followup_responses |-> Null,
                     error |-> Null, total_input_tokens |-> 0,
                     total_output_tokens |-> 0]}
  /\ alarm_set' = TRUE
  /\ reply' = [op |-> "start", code |-> 201]
  /\ UNCHANGED <<domain_results, search_artifacts, pc, batch, resume_waiting, hist>>

\* handleStart.  The body is read first; the existence check, the INSERT and
\* setAlarm then run without a suspension point.
handleStart(quiz) ==
  /\ IF HasJob(search_job)
       THEN /\ reply' = [op |-> "start", code |-> 409]
            /\ UNCHANGED <<search_job, alarm_set>>
       ELSE /\ search_job' = {[status |-> "running", batch_num |-> 0,
                               quiz_responses |-> quiz, followup_responses |-> Null,
                               error |-> Null, total_input_tokens |-> 0,
                               total_output_tokens |-> 0]}
            /\ alarm_set' = scheduleAlarm(alarm_set, 0)
            /\ reply' = [op |-> "start", code |-> 201]
  /\ UNCHANGED <<domain_results, search_artifacts, pc, batch, resume_waiting, hist>>

\* a status guard that also lets a job awaiting follow-up be cancelled
CancelAllowed_AlsoFollowup(st) == st = "running" \/ st = "pending" \/ st = "needs_followup"

\* a /status that inserts a pending job row when it finds none
handleGetStatus_CreatesJob ==
  /\ IF ~HasJob(search_job)
       THEN /\ search_job' = {[status |-> "pending", batch_num |-> 0,
                               quiz_responses |-> CHOOSE quiz \in Quizzes : TRUE,
                               followup_responses |-> Null, error |-> Null,
                               total_input_tokens |-> 0, total_output_tokens |-> 0]}
            /\ reply' = [op |-> "status", code |-> 404]
       ELSE /\ reply' = [op |-> "status", code |-> 200,
                         body |-> [status |-> getJob(search_job).status,
                                   batch_num |-> getJob(search_job).batch_num,
                                   domains_checked |-> getTotalDomainsChecked(domain_results),
                                   domains_available |-> getAvailableDomainsCount(domain_results),
                                   good_results |-> getGoodResultsCount(domain_results),
                                   input_tokens |-> getTokenUsage(search_job).input,
                                   output_tokens |-> getTokenUsage(search_job).output]]
            /\ UNCHANGED search_job
  /\ UNCHANGED <<domain_results, search_artifacts, alarm_set, pc, batch, resume_waiting, hist>>

\* handleGetStatus: synchronous; 404 without a job, else the snapshot
handleGetStatus ==
  /\ reply' = IF ~HasJob(search_job)
                THEN [op |-> "status", code |-> 404]
                ELSE [op |-> "status", code |-> 200,
                      body |-> [status |-> getJob(search_job).status,
                                batch_num |-> getJob(search_job).batch_num,
                                domains_checked |-> getTotalDomainsChecked(domain_results),
                                domains_available |-> getAvailableDomainsCount(domain_results),
                                good_results |-> getGoodResultsCount(domain_results),
                                input_tokens |-> getTokenUsage(search_job).input,
                                output_tokens |-> getTokenUsage(search_job).output]]
  /\ UNCHANGED <<store, alarm_set, pc, batch, resume_waiting, hist>>

\* an order that puts rows without a price first among rows of equal score
\* (what ORDER BY price_cents ASC does without NULLS LAST)
orderBefore_NullsFirst(a, b) ==
  \/ a.score > b.score
  \/ /\ a.score = b.score
     /\ b.price_cents # NullPrice
     /\ (a.price_cents = NullPrice \/ a.price_cents < b.price_cents)

\* ORDER BY score DESC, price_cents ASC NULLS LAST: row a sorts before row b
orderBefore(a, b) ==
  \/ a.score > b.score
  \/ /\ a.score = b.score
     /\ a.price_cents # NullPrice
     /\ (b.price_cents = NullPrice \/ a.price_cents < b.price_cents)

\* LIMIT 50 of handleGetResults' query
RESULTS_LIMIT == 50

\* SELECT * FROM domain_results WHERE status = 'available' ORDER BY score DESC,
\* price_cents ASC NULLS LAST LIMIT limit: the sequences the query can return.
\* A row's place is one more than the number of rows that sort before it; rows
\* with equal score and price come in any order (tieBreaks).
selectResults(dr, limit) ==
  LET avail == {r \in dr : r.status = "available"}
      ranked == {<<Cardinality({x \in avail : orderBefore(x, r)}), r>> : r \in avail}
      tiedRows == {p[2] : p \in {p \in ranked : \E q \in ranked : q[1] = p[1] /\ q[2] # p[2]}}
      tieBreaks == {f \in [tiedRows -> 1..Cardinality(tiedRows)] :
                      \A a \in tiedRows : \A b \in tiedRows : a # b => f[a] # f[b]}
      place(p, f) == IF p[2] \notin tiedRows THEN p[1] + 1
                     ELSE p[1] + 1 + Cardinality({q \in tiedRows :
                            /\ q.score = p[2].score /\ q.price_cents = p[2].price_cents
                            /\ f[q] < f[p[2]]})
      n == Cardinality(avail)
      m == IF n < limit THEN n ELSE limit
  IN  {[i \in 1..m |-> (CHOOSE p \in ranked : place(p, f) = i)[2]] : f \in tieBreaks}

\* pricing_category of handleGetResults: r.price_cents ? (<= 3000 ? "bundled" :
\* <= 5000 ? "recommended" : "premium") : "unknown"; null and 0 are falsy
pricingCategory(price_cents) ==
  IF price_cents = NullPrice \/ price_cents = 0 THEN "unknown"
  ELSE IF price_cents <= 3000 THEN "bundled"
  ELSE IF price_cents <= 5000 THEN "recommended"
  ELSE "premium"

\* the CASE expression of getPricingSummary's query
summaryCategory(price_cents) ==
  IF price_cents = NullPrice THEN "unknown"
  ELSE IF price_cents <= 3000 THEN "bundled"
  ELSE IF price_cents <= 5000 THEN "recommended"
  ELSE IF price_cents > 5000 THEN "premium"
  ELSE "standard"

\* getPricingSummary(): the available rows counted by category
getPricingSummary(dr) ==
  [c \in {"bundled", "recommended", "standard", "premium", "unknown"} |->
     Cardinality({r \in dr : r.status = "available" /\ summaryCategory(r.price_cents) = c})]

\* handleGetResults: synchronous; 404 without a job, else the ranked available
\* rows with their pricing_category, the pricing summary and the token usage
\* (price_display, a formatting of price_cents, is left out of the rows)
handleGetResults ==
  /\ IF ~HasJob(search_job)
       THEN reply' = [op |-> "results", code |-> 404]
       ELSE \E results \in selectResults(domain_results, RESULTS_LIMIT) :
              reply' = [op |-> "results", code |-> 200,
                        body |-> [status |-> getJob(search_job).status,
                                  batch_num |-> getJob(search_job).batch_num,
                                  domains |-> [i \in DOMAIN results |->
                                     [domain |-> results[i].domain,
                                      batch_num |-> results[i].batch_num,
                                      status |-> results[i].status,
                                      score |-> results[i].score,
                                      price_cents |-> results[i].price_cents,
                                      pricing_category |-> pricingCategory(results[i].price_cents)]],
                                  total_checked |-> getTotalDomainsChecked(domain_results),
                                  pricing_summary |-> getPricingSummary(domain_results),
                                  input_tokens |-> getTokenUsage(search_job).input,
                                  output_tokens |-> getTokenUsage(search_job).output,
                                  total_tokens |-> getTokenUsage(search_job).input
                                                     + getTokenUsage(search_job).output]]
  /\ UNCHANGED <<store, alarm_set, pc, batch, resume_waiting, hist>>

\* getRecentAvailableDomains(limit): ORDER BY id DESC LIMIT limit.  The model's
\* table keeps no id, so the rows are returned as a set, and which rows are
\* the recent ones is left open when there are more than `limit`.
getRecentAvailableDomains(dr, limit) ==
  LET avail == {r \in dr : r.status = "available"}
  IN  IF Cardinality(avail) <= limit THEN {avail}
      ELSE {S \in SUBSET avail : Cardinality(S) = limit}

\* limit argument of getRecentAvailableDomains in handleStream
RECENT_LIMIT == 10

\* handleStream: synchronous; 404 without a job, else one SSE event with the
\* current counts (the model's quizzes carry no domain_idea)
handleStream ==
  /\ IF ~HasJob(search_job)
       THEN reply' = [op |-> "stream", code |-> 404]
       ELSE \E recent \in getRecentAvailableDomains(domain_results, RECENT_LIMIT) :
              reply' = [op |-> "stream", code |-> 200,
                        body |-> [status |-> getJob(search_job).status,
                                  batch_num |-> getJob(search_job).batch_num,
                                  domains_checked |-> getTotalDomainsChecked(domain_results),
                                  domains_available |-> getAvailableDomainsCount(domain_results),
                                  good_results |-> getGoodResultsCount(domain_results),
                                  recent_domains |-> recent,
                                  domain_idea_status |-> Null]]
  /\ UNCHANGED <<store, alarm_set, pc, batch, resume_waiting, hist>>

\* the rows handleGetFollowup's query can return: WHERE artifact_type =
\* 'followup_quiz' ORDER BY created_at DESC LIMIT 1 returns a row with the
\* greatest created_at; among rows of the same second SQL fixes no order
latestQuizzes(arts) ==
  LET q == followupQuizzes(arts)
      first == CHOOSE i \in 1..Len(q) :
                 /\ ~q[i].tied
                 /\ \A j \in (i+1)..Len(q) : q[j].tied
  IN  {q[i] : i \in first..Len(q)}

\* handleGetFollowup: synchronous; 404 without a job or without a quiz row
handleGetFollowup ==
  /\ IF ~HasJob(search_job) \/ followupQuizzes(search_artifacts) = <<>>
       THEN reply' = [op |-> "followup", code |-> 404]
       ELSE \E artifact \in latestQuizzes(search_artifacts) :
              reply' = [op |-> "followup", code |-> 200,
                        body |-> [batch_num |-> artifact.batch_num,
                                  content |-> artifact.content]]
  /\ UNCHANGED <<store, alarm_set, pc, batch, resume_waiting, hist>>

\* status guard of handleCancel: running or pending
CancelAllowed(st) == st = "running" \/ st = "pending"

\* handleCancel: synchronous, no suspension point
handleCancel ==
  /\ IF ~HasJob(search_job)
       THEN /\ reply' = [op |-> "cancel", code |-> 404]
            /\ UNCHANGED <<search_job, cancel_batch>>
       ELSE IF ~CancelAllowed(getJob(search_job).status)
         THEN /\ reply' = [op |-> "cancel", code |-> 400]
              /\ UNCHANGED <<search_job, cancel_batch>>
         ELSE /\ search_job' = updateJobStatus(search_job, "cancelled", Null)
              /\ reply' = [op |-> "cancel", code |-> 200]
              /\ cancel_batch' = IF InBatch THEN batch.batchNum ELSE cancel_batch
  /\ UNCHANGED <<domain_results, search_artifacts, alarm_set, pc, batch,
                 resume_waiting, resumes_issued, restarted, agent_call>>

\* a status guard that also lets a complete job resume
ResumeAllowed_AlsoComplete(st) == st = "needs_followup" \/ st = "complete"

\* status guard of handleResume
ResumeAllowed(st) == st = "needs_followup"

\* handleResume up to `await request.json()`: the job and status checks
handleResumeCheck ==
  /\ IF ~HasJob(search_job)
       THEN /\ reply' = [op |-> "resume", code |-> 404]
            /\ UNCHANGED <<resume_waiting, resumes_issued>>
       ELSE IF ~ResumeAllowed(getJob(search_job).status)
         THEN /\ reply' = [op |-> "resume", code |-> 400]
              /\ UNCHANGED <<resume_waiting, resumes_issued>>
         ELSE /\ resumes_issued < MaxResumes
              /\ resume_waiting' = resume_waiting + 1
              /\ resumes_issued' = resumes_issued + 1
              /\ UNCHANGED reply
  /\ UNCHANGED <<store, alarm_set, pc, batch, cancel_batch, restarted, agent_call>>

\* a handleResume that runs the batch itself instead of arming the alarm
handleResumeBody_RunsBatch(body) ==
  /\ resume_waiting > 0
  /\ resume_waiting' = resume_waiting - 1
  /\ search_job' = incrementBatchNum({[r EXCEPT !.status = "running", !.followup_responses = body]
                                        : r \in search_job})
  /\ batch' = [NoBatch EXCEPT !.batchNum = getJob(search_job).batch_num + 1,
                              !.checked = getCheckedDomains(domain_results)]
  /\ pc' = "generate"
  /\ reply' = [op |-> "resume", code |-> 200]
  /\ UNCHANGED <<domain_results, search_artifacts, alarm_set, hist>>

\* a handleResume that also resets batch_num, giving the job a new budget
handleResumeBody_ResetsBudget(body) ==
  /\ resume_waiting > 0
  /\ resume_waiting' = resume_waiting - 1
  /\ search_job' = {[r EXCEPT !.status = "running", !.followup_responses = body,
                              !.batch_num = 0] : r \in search_job}
  /\ alarm_set' = TRUE
  /\ reply' = [op |-> "resume", code |-> 200]
  /\ UNCHANGED <<domain_results, search_artifacts, pc, batch, hist>>

\* a handleResume that sets the status to running and schedules no alarm
handleResumeBody_NoAlarm(body) ==
  /\ resume_waiting > 0
  /\ resume_waiting' = resume_waiting - 1
  /\ search_job' = {[r EXCEPT !.status = "running", !.followup_responses = body] : r \in search_job}
  /\ reply' = [op |-> "resume", code |-> 200]
  /\ UNCHANGED <<domain_results, search_artifacts, alarm_set, pc, batch, hist>>

\* handleResume after the body arrived: UPDATE ... SET status = 'running',
\* followup_responses = ? WHERE id = ?, then scheduleAlarm(0).  The status is
\* not read again.
handleResumeBody(body) ==
  /\ resume_waiting > 0
  /\ resume_waiting' = resume_waiting - 1
  /\ search_job' = {[r EXCEPT !.status = "running", !.followup_responses = body] : r \in search_job}
  /\ alarm_set' = scheduleAlarm(alarm_set, 0)
  /\ reply' = [op |-> "resume", code |-> 200]
  /\ UNCHANGED <<domain_results, search_artifacts, pc, batch, hist>>

\* ------------------------------------------------ provider outcomes
ZeroUsage == [inputTokens |-> 0, outputTokens |-> 0]

\* a generator call (generateWithTools or generate) raises, or returns the
\* valid domain strings of its reply
DriverOutcomes(quiz) ==
  {[raises |-> TRUE, domains |-> {}, usage |-> ZeroUsage]} \cup
  {[raises |-> FALSE, domains |-> S, usage |-> u] :
     S \in SUBSET GeneratorStrings(quiz), u \in Usages}

\* the evaluation records of an evaluator reply as parseToolCall reads them:
\* the reply may leave requested domains out and may name domains that were
\* not requested; each domain is lowercased
EvalReplies(quiz) ==
  UNION {{ {[domain |-> toLowerCase(d), score |-> f[d].score,
             worthChecking |-> f[d].worth_checking] : d \in S}
           : f \in [S -> EvalChoicesOf(quiz)]} : S \in SUBSET EvaluatorStrings(quiz)}

\* an evaluator call raises, or returns a reply
SwarmOutcomes(quiz) ==
  {[raises |-> TRUE, evals |-> {}, usage |-> ZeroUsage]} \cup
  {[raises |-> FALSE, evals |-> E, usage |-> u] : E \in EvalReplies(quiz), u \in Usages}

\* generateCandidates (driver.ts).  createCandidate lowercases each domain.
\* With tools the tool call is tried first;
\* its catch block awaits generateWithFallback, whose exception is not caught.
\* Candidates already in previousResults.tried_summary (passed from batch 2 on)
\* are filtered out.
generateCandidates(supportsTools, toolCall, fallbackCall, batchNum, checked) ==
  LET r == IF supportsTools /\ ~toolCall.raises THEN toolCall ELSE fallbackCall
      candidates == {toLowerCase(d) : d \in r.domains}
  IN  [raised |-> r.raises,
       candidates |-> IF batchNum > 1 THEN candidates \ checked ELSE candidates,
       usage |-> r.usage]

\* parseToolCall / parseEvaluations (swarm.ts): the records of the reply, and
\* quickEvaluate for every expected domain the reply does not mention
parseEvaluations(evals, expectedDomains) ==
  evals \cup {quickEvaluate(d) : d \in expectedDomains \ {e.domain : e \in evals}}

\* evaluateChunk (swarm.ts).  Both `return evaluateChunkFallback(...)` statements
\* return the promise without awaiting it, so a rejection of the fallback call
\* passes by the enclosing try/catch and rejects evaluateChunk itself; the
\* quickEvaluate catch block is reached by no provider failure.
evaluateChunk(supportsTools, toolCall, fallbackCall, domains) ==
  LET r == IF supportsTools /\ ~toolCall.raises THEN toolCall ELSE fallbackCall
  IN  [raised |-> r.raises,
       evaluations |-> IF r.raises THEN {} ELSE parseEvaluations(r.evals, domains),
       usage |-> r.usage]

\* evaluateDomains (swarm.ts): chunks of 10 through Promise.all; the model's
\* candidate lists fit in one chunk
evaluateDomains(supportsTools, toolCall, fallbackCall, domains) ==
  IF domains = {}
    THEN [raised |-> FALSE, evaluations |-> {}, usage |-> ZeroUsage]
    ELSE evaluateChunk(supportsTools, toolCall, fallbackCall, domains)

\* String(error) of the exception alarm() catches
ErrorString(where) == "Error: " \o where

\* a decision that tests the batch budget before the good-results target
AlarmDecision_BudgetFirst(goodResults, batchNum) ==
  IF batchNum >= MAX_BATCHES THEN "needs_followup"
  ELSE IF goodResults >= TARGET_RESULTS THEN "complete"
  ELSE "continue"

\* a decision that completes the job when the target is met or the budget is used
AlarmDecision_TargetOrBudget(goodResults, batchNum) ==
  IF goodResults >= TARGET_RESULTS \/ batchNum >= MAX_BATCHES THEN "complete"
  ELSE "continue"

\* the re-arm decision of alarm() after processBatch returned
AlarmDecision(goodResults, batchNum) ==
  IF goodResults >= TARGET_RESULTS THEN "complete"
  ELSE IF batchNum >= MAX_BATCHES THEN "needs_followup"
  ELSE "continue"

\* the rows processBatch writes when no evaluation is worth checking
notWorthRows(batchNum, evaluations) ==
  {[batch_num |-> batchNum, domain |-> e.domain, status |-> "unknown",
    price_cents |-> NullPrice, score |-> e.score] : e \in evaluations}

\* rows for the RDAP results that store a failed lookup (unknown) as available
checkedRows_ErrorsAvailable(batchNum, rdapResults, evaluations, pricing) ==
  {[batch_num |-> batchNum, domain |-> r.domain,
    status |-> IF r.status = "unknown" THEN "available" ELSE r.status,
    price_cents |-> NullPrice,
    score |-> IF \E e \in evaluations : e.domain = r.domain
                THEN (CHOOSE e \in evaluations : e.domain = r.domain).score
                ELSE 50] : r \in rdapResults}

\* the rows processBatch writes for the RDAP results (step 5)
checkedRows(batchNum, rdapResults, evaluations, pricing) ==
  {[batch_num |-> batchNum, domain |-> r.domain, status |-> r.status,
    price_cents |-> IF \E p \in pricing : p.domain = r.domain
                      THEN (CHOOSE p \in pricing : p.domain = r.domain).priceCents
                      ELSE NullPrice,
    score |-> IF \E e \in evaluations : e.domain = r.domain
                THEN (CHOOSE e \in evaluations : e.domain = r.domain).score
                ELSE 50] : r \in rdapResults}

\* the rows processBatch writes for the evaluations filtered out ("low_score")
skippedRows(batchNum, evaluations) ==
  notWorthRows(batchNum, evaluations \ filterWorthChecking(evaluations))

\* a save that inserts the rows and keeps the rows already there
saveDomainResults_Insert(dr, rows) == dr \cup rows

\* saveDomainResult applied to each row of `rows` (their domains are distinct)
saveDomainResults(dr, rows) ==
  {r \in dr : r.domain \notin {x.domain : x \in rows}} \cup rows

\* newGoodResults of processBatch: available and (evaluation?.score ?? 0) >= 0.4
newGoodResults(rdapResults, evaluations) ==
  Cardinality({r \in rdapResults : r.status = "available" /\
     \E e \in evaluations : e.domain = r.domain /\ e.score >= 40})

\* --------------------------------------------------- the alarm handler
\* catch block of alarm(): updateJobStatus("failed", String(error))
alarmCatch(sj, where) ==
  /\ search_job' = updateJobStatus(sj, "failed", ErrorString(where))
  /\ pc' = "idle"
  /\ batch' = NoBatch
  /\ UNCHANGED <<domain_results, search_artifacts, alarm_set, resume_waiting, reply, hist>>

\* alarm() from the return of processBatch on: getJob, getGoodResultsCount, the
\* decision, and the follow-up quiz artifact; it suspends again only at the
\* e-mail call, made when the quiz carries a client_email.  sj, dr, arts are the
\* tables as processBatch left them.
alarmAfterBatch(sj, dr, arts) ==
  LET updatedJob == getJob(sj)
      goodResults == getGoodResultsCount(dr)
      decision == AlarmDecision(goodResults, updatedJob.batch_num)
      mail == IF updatedJob.quiz_responses.client_email # Null THEN "email" ELSE "idle"
  IN  /\ domain_results' = dr
      /\ batch' = NoBatch
      /\ CASE decision = "complete" ->
                /\ search_job' = updateJobStatus(sj, "complete", Null)
                /\ search_artifacts' = arts
                /\ pc' = mail
                /\ UNCHANGED alarm_set
           [] decision = "needs_followup" ->
                /\ search_job' = updateJobStatus(sj, "needs_followup", Null)
                /\ \E tied \in SameSecond(arts) :
                      search_artifacts' = saveArtifact(arts,
                        [batch_num |-> updatedJob.batch_num, artifact_type |-> "followup_quiz",
                         content |-> goodResults, tied |-> tied])
                /\ pc' = mail
                /\ UNCHANGED alarm_set
           [] OTHER ->
                /\ search_job' = sj
                /\ search_artifacts' = arts
                /\ alarm_set' = scheduleAlarm(alarm_set, 10000)
                /\ pc' = "idle"
      /\ UNCHANGED <<resume_waiting, reply, hist>>

\* an alarm() without the status check: it runs a batch whatever the status
alarm_NoStatusCheck ==
  /\ alarm_set
  /\ pc = "idle"
  /\ alarm_set' = FALSE
  /\ IF HasJob(search_job)
       THEN /\ search_job' = incrementBatchNum(search_job)
            /\ batch' = [NoBatch EXCEPT !.batchNum = getJob(search_job).batch_num + 1,
                                        !.checked = getCheckedDomains(domain_results)]
            /\ pc' = "generate"
       ELSE UNCHANGED <<search_job, batch, pc>>
  /\ UNCHANGED <<domain_results, search_artifacts, resume_waiting, reply, hist>>

\* The alarm fires: the runtime clears it and runs alarm().  Without a job, or
\* with a status other than running, alarm() returns.  Otherwise processBatch
\* starts: incrementBatchNum, getCheckedDomains, and the generator call.
alarm ==
  /\ alarm_set
  /\ pc = "idle"
  /\ alarm_set' = FALSE
  /\ IF HasJob(search_job) /\ getJob(search_job).status = "running"
       THEN /\ search_job' = incrementBatchNum(search_job)
            /\ batch' = [NoBatch EXCEPT !.batchNum = getJob(search_job).batch_num + 1,
                                        !.checked = getCheckedDomains(domain_results)]
            /\ pc' = "generate"
       ELSE UNCHANGED <<search_job, batch, pc>>
  /\ UNCHANGED <<domain_results, search_artifacts, resume_waiting, reply, hist>>

\* generateCandidates returns or raises; then addTokenUsage, the checkedSet
\* filter, and either the zero-work return or the evaluator call
generateReturns(supportsTools, toolCall, fallbackCall) ==
  /\ pc = "generate"
  /\ LET res == generateCandidates(supportsTools, toolCall, fallbackCall,
                                   batch.batchNum, batch.checked)
         sj1 == addTokenUsage(search_job, res.usage)
         newCandidates == res.candidates \ batch.checked
     IN  IF res.raised
           THEN alarmCatch(search_job, "generateCandidates")
           ELSE /\ getJob(sj1).total_input_tokens <= MaxTokenTotal
                /\ IF newCandidates = {}
                     THEN alarmAfterBatch(sj1, domain_results, search_artifacts)
                     ELSE /\ search_job' = sj1
                          /\ batch' = [batch EXCEPT !.newCandidates = newCandidates]
                          /\ pc' = "evaluate"
                          /\ UNCHANGED <<domain_results, search_artifacts, alarm_set,
                                         resume_waiting, reply, hist>>

\* evaluateDomains returns or raises; then addTokenUsage, filterWorthChecking,
\* and either the not-worth-checking return or the RDAP call
evaluateReturns(supportsTools, toolCall, fallbackCall) ==
  /\ pc = "evaluate"
  /\ LET res == evaluateDomains(supportsTools, toolCall, fallbackCall, batch.newCandidates)
         sj1 == addTokenUsage(search_job, res.usage)
         worthChecking == filterWorthChecking(res.evaluations)
     IN  IF res.raised
           THEN alarmCatch(search_job, "evaluateDomains")
           ELSE /\ getJob(sj1).total_input_tokens <= MaxTokenTotal
                /\ IF worthChecking = {}
                     THEN alarmAfterBatch(sj1,
                            saveDomainResults(domain_results,
                                              notWorthRows(batch.batchNum, res.evaluations)),
                            search_artifacts)
                     ELSE /\ search_job' = sj1
                          /\ batch' = [batch EXCEPT !.evaluations = res.evaluations]
                          /\ pc' = "rdap"
                          /\ UNCHANGED <<domain_results, search_artifacts, alarm_set,
                                         resume_waiting, reply, hist>>

\* checkDomainsParallel(domains, 5, 500) of ./rdap: one result per domain
RdapOutcomes(D) ==
  {{[domain |-> d, status |-> f[d]] : d \in D} : f \in [D -> RdapStatuses]}

\* getBatchPricing(domains) of ./pricing: prices for some of the domains
PricingOutcomes(D) ==
  UNION {{ {[domain |-> d, priceCents |-> f[d]] : d \in S} : f \in [S -> Prices]}
         : S \in SUBSET D}

\* checkDomainsParallel returns or raises; then the pricing call for the
\* domains found available
rdapReturns(raises, results) ==
  /\ pc = "rdap"
  /\ IF raises
       THEN alarmCatch(search_job, "checkDomainsParallel")
       ELSE /\ batch' = [batch EXCEPT !.rdapResults = results]
            /\ pc' = "pricing"
            /\ UNCHANGED <<store, alarm_set, resume_waiting, reply, hist>>

\* a processBatch whose pricing call is not wrapped in try/catch: a failure of
\* getBatchPricing escapes to alarm()
pricingReturns_Uncaught(raises, prices) ==
  /\ pc = "pricing"
  /\ IF raises
       THEN alarmCatch(search_job, "getBatchPricing")
       ELSE LET dr1 == saveDomainResults(domain_results,
                         checkedRows(batch.batchNum, batch.rdapResults, batch.evaluations, prices))
                dr2 == saveDomainResults(dr1, skippedRows(batch.batchNum, batch.evaluations))
                arts == saveArtifact(search_artifacts,
                          [batch_num |-> batch.batchNum, artifact_type |-> "batch_report",
                           content |-> newGoodResults(batch.rdapResults, batch.evaluations),
                           tied |-> FALSE])
            IN  alarmAfterBatch(search_job, dr2, arts)

\* getBatchPricing returns or raises (caught inside processBatch: the map stays
\* empty); then steps 5 of processBatch: the rows of the checked domains, the
\* rows of the skipped domains, the batch_report artifact, and the return
pricingReturns(raises, prices) ==
  /\ pc = "pricing"
  /\ LET pricingMap == IF raises THEN {} ELSE prices
         dr1 == saveDomainResults(domain_results,
                   checkedRows(batch.batchNum, batch.rdapResults, batch.evaluations, pricingMap))
         dr2 == saveDomainResults(dr1, skippedRows(batch.batchNum, batch.evaluations))
         arts == saveArtifact(search_artifacts,
                   [batch_num |-> batch.batchNum, artifact_type |-> "batch_report",
                    content |-> newGoodResults(batch.rdapResults, batch.evaluations),
                    tied |-> FALSE])
     IN  alarmAfterBatch(search_job, dr2, arts)

\* the e-mail call of sendCompletionEmail / sendFollowupQuizEmail returns or
\* raises (caught and logged); alarm() ends
emailReturns ==
  /\ pc = "email"
  /\ pc' = "idle"
  /\ UNCHANGED <<store, alarm_set, batch, resume_waiting, reply, hist>>

\* ------------------------------------------------------ specification
Requests ==
  \/ \E quiz \in Quizzes : handleStart(quiz)
  \/ handleCancel
  \/ handleResumeCheck
  \/ \E body \in FollowupBodies : handleResumeBody(body)

\* the (supportsTools, tool call, fallback call) triples that differ in effect:
\* the fallback is called only without tools or after the tool call raised
CallCases(O) ==
  LET raising == {o \in O : o.raises}
  IN  [supportsTools : {TRUE}, toolCall : O \ raising, fallbackCall : raising] \cup
      [supportsTools : BOOLEAN, toolCall : raising, fallbackCall : O]

GenerateStep ==
  /\ pc = "generate"
  /\ \E c \in CallCases(DriverOutcomes(getJob(search_job).quiz_responses)) :
        generateReturns(c.supportsTools, c.toolCall, c.fallbackCall)

EvaluateStep ==
  /\ pc = "evaluate"
  /\ \E c \in CallCases(SwarmOutcomes(getJob(search_job).quiz_responses)) :
        evaluateReturns(c.supportsTools, c.toolCall, c.fallbackCall)

RdapStep ==
  \/ rdapReturns(TRUE, {})
  \/ \E res \in RdapOutcomes({e.domain : e \in filterWorthChecking(batch.evaluations)}) :
        rdapReturns(FALSE, res)

PricingStep ==
  \/ pricingReturns(TRUE, {})
  \/ \E prices \in PricingOutcomes({r.domain : r \in {x \in batch.rdapResults : x.status = "available"}}) :
        pricingReturns(FALSE, prices)

\* the resumptions of processBatch
BatchSteps == GenerateStep \/ EvaluateStep \/ RdapStep \/ PricingStep

AlarmSteps == BatchSteps \/ emailReturns

Next == Requests \/ alarm \/ AlarmSteps

Spec == Init /\ [][Next]_vars

\* armed alarms fire, and every outbound call returns or raises
FairSpec == Spec /\ WF_vars(alarm) /\ WF_vars(AlarmSteps)

\* the batch pipeline of a job whose prompts yield two domain names, observed
\* through /status: /start, timer firings and the calls of processBatch
PipelineNext ==
  \/ \E quiz \in PipelineQuizzes : handleStart(quiz)
  \/ handleGetStatus
  \/ alarm
  \/ BatchSteps

PipelineSpec == Init /\ [][PipelineNext]_vars

\* the batch pipeline of a job whose evaluator model is free in its scores
ScoreNext ==
  \/ \E quiz \in ScoreQuizzes : handleStart(quiz)
  \/ alarm
  \/ BatchSteps

ScoreSpec == Init /\ [][ScoreNext]_vars

\* a job that is started, runs out of batches and is resumed, observed
\* through /followup
FollowupNext ==
  \/ \E quiz \in Quizzes : handleStart(quiz)
  \/ handleResumeCheck
  \/ \E body \in ResumeBodies : handleResumeBody(body)
  \/ handleGetFollowup
  \/ alarm
  \/ AlarmSteps

FollowupSpec == Init /\ [][FollowupNext]_vars

\* a job whose object is restarted between batches, observed through /status
RestartNext ==
  \/ \E quiz \in Quizzes : handleStart(quiz)
  \/ handleGetStatus
  \/ restart
  \/ alarm
  \/ AlarmSteps

RestartSpec == Init /\ [][RestartNext]_vars

\* the read requests
Reads == handleGetStatus \/ handleGetResults \/ handleGetFollowup \/ handleStream

\* a job that is started, runs, may be cancelled, and is read at any moment
ReadNext ==
  \/ \E quiz \in Quizzes : handleStart(quiz)
  \/ handleCancel
  \/ Reads
  \/ alarm
  \/ AlarmSteps

ReadSpec == Init /\ [][ReadNext]_vars

\* ---- /results on a stored table
\* price_cents values around the category limits, and SQL NULL
PriceSamples == {NullPrice, 0, 2500, 3000, 3001, 5000, 5001}

\* rows of two domains of batch 2: not stored, registered, or available with
\* a score and a price
SampleRows(d) ==
  {{}} \cup
  {{[batch_num |-> 2, domain |-> d, status |-> "registered", price_cents |-> NullPrice,
     score |-> 45]}} \cup
  {{[batch_num |-> 2, domain |-> d, status |-> "available", price_cents |-> p, score |-> sc]} :
     p \in PriceSamples, sc \in {45, 95}}

\* the first n of fifty available rows of batch 1 (a batch holds up to fifty
\* candidates), with scores 0.41 .. 0.90 and one price
BulkRows(n) ==
  LET tens == <<"grove-0", "grove-1", "grove-2", "grove-3", "grove-4">>
      units == <<"0.dev", "1.dev", "2.dev", "3.dev", "4.dev", "5.dev", "6.dev", "7.dev",
                 "8.dev", "9.dev">>
  IN  {[batch_num |-> 1, domain |-> tens[((i - 1) \div 10) + 1] \o units[((i - 1) % 10) + 1],
        status |-> "available", price_cents |-> 2500, score |-> 40 + i] : i \in 1..n}

\* how many of the fifty rows of batch 1 are stored
BulkCounts == {0, 48, 50}

\* the artifacts of a job that stored table dr in two batches and then decided:
\* a batch_report for each batch that stored looked-up rows, and the follow-up
\* quiz when the decision was needs_followup
ResultsArtifacts(dr) ==
  LET report(n) ==
        IF \E r \in dr : r.batch_num = n
          THEN <<[batch_num |-> n, artifact_type |-> "batch_report",
                  content |-> Cardinality({r \in dr : r.batch_num = n /\ r.status = "available"
                                                      /\ r.score >= 40}),
                  tied |-> FALSE]>>
          ELSE <<>>
      quiz == IF AlarmDecision(getGoodResultsCount(dr), 2) = "needs_followup"
                THEN <<[batch_num |-> 2, artifact_type |-> "followup_quiz",
                        content |-> getGoodResultsCount(dr), tied |-> FALSE]>>
                ELSE <<>>
  IN  report(1) \o report(2) \o quiz

\* a job whose second batch has returned and was decided (complete or
\* needs_followup), with its domain_results table; or no job at all
ResultsInit ==
  /\ \/ /\ search_job = {}
        /\ domain_results = {}
        /\ search_artifacts = <<>>
     \/ \E n \in BulkCounts : \E r1 \in SampleRows("oak.com") :
          \E r2 \in SampleRows("acorn-9.xyz") :
           LET dr == BulkRows(n) \cup r1 \cup r2
           IN  /\ domain_results = dr
               /\ search_job = {[status |-> AlarmDecision(getGoodResultsCount(dr), 2),
                                  batch_num |-> 2,
                                  quiz_responses |-> CHOOSE quiz \in PipelineQuizzes : TRUE,
                                  followup_responses |-> Null, error |-> Null,
                                  total_input_tokens |-> 1, total_output_tokens |-> 2]}
               /\ search_artifacts = ResultsArtifacts(dr)
  /\ alarm_set = FALSE
  /\ pc = "idle"
  /\ batch = NoBatch
  /\ resume_waiting = 0
  /\ reply = NoReply
  /\ resumes_issued = 0
  /\ cancel_batch = 0
  /\ restarted = FALSE
  /\ agent_call = NoCall

ResultsNext == handleGetResults

ResultsSpec == ResultsInit /\ [][ResultsNext]_vars


\* ---- generateCandidates on the text of a provider reply (driver.ts)
\* Strings are sequences of characters here.
lowerLetters == <<"a", "b", "c", "d", "e", "f", "g", "h", "i", "j", "k", "l", "m",
                  "n", "o", "p", "q", "r", "s", "t", "u", "v", "w", "x", "y", "z">>
upperLetters == <<"A", "B", "C", "D", "E", "F", "G", "H", "I", "J", "K", "L", "M",
                  "N", "O", "P", "Q", "R", "S", "T", "U", "V", "W", "X", "Y", "Z">>
digits == <<"0", "1", "2", "3", "4", "5", "6", "7", "8", "9">>
Range(f) == {f[i] : i \in DOMAIN f}

\* String.prototype.toLowerCase, character by character
toLowerChar(c) ==
  IF c \in Range(upperLetters)
    THEN lowerLetters[CHOOSE i \in DOMAIN upperLetters : upperLetters[i] = c]
    ELSE c
toLowerChars(str) == [i \in DOMAIN str |-> toLowerChar(str[i])]

\* domain.split("."): parts[0] and parts[parts.length - 1]
dots(str) == {i \in DOMAIN str : str[i] = "."}
firstPart(str) ==
  IF dots(str) = {} THEN str
  ELSE SubSeq(str, 1, (CHOOSE i \in dots(str) : \A j \in dots(str) : i <= j) - 1)
lastPart(str) ==
  IF dots(str) = {} THEN str
  ELSE SubSeq(str, (CHOOSE i \in dots(str) : \A j \in dots(str) : i >= j) + 1, Len(str))

\* /^[a-z]+$/
lettersOnly(str) == Len(str) >= 1 /\ \A i \in DOMAIN str : str[i] \in Range(lowerLetters)
\* /^[a-z0-9]([a-z0-9-]*[a-z0-9])?$/
alnum(c) == c \in Range(lowerLetters) \cup Range(digits)
labelPattern(str) ==
  /\ Len(str) >= 1
  /\ alnum(str[1]) /\ alnum(str[Len(str)])
  /\ \A i \in DOMAIN str : alnum(str[i]) \/ str[i] = "-"

\* isValidDomain (driver.ts) on a string
isValidDomain(domain) ==
  IF Len(domain) < 4 THEN FALSE
  ELSE IF dots(domain) = {} THEN FALSE
  ELSE LET tld == lastPart(toLowerChars(domain))
           name == firstPart(toLowerChars(domain))
       IN  IF Len(tld) < 2 \/ ~lettersOnly(tld) THEN FALSE
           ELSE IF Len(name) < 1 \/ Len(name) > 63 THEN FALSE
           ELSE labelPattern(name)

\* a createCandidate that keeps the reply's spelling
createCandidate_KeepCase(domain) == domain

\* createCandidate (driver.ts): the domain field of the candidate
createCandidate(domain) == toLowerChars(domain)

\* the loop of parseToolCall and of parseCandidates over the entries of a
\* domains array: typed is parseToolCall's `typeof domain === "string"` test;
\* without it null is rejected by isValidDomain's `!domain`, and a number
\* raises a TypeError at domain.includes, which ends parseCandidates' loop in
\* its catch block with the candidates pushed so far
RECURSIVE pushValid(_, _, _)
pushValid(entries, candidates, typed) ==
  IF entries = <<>> THEN candidates
  ELSE LET entry == Head(entries) IN
       IF entry.type = "number" /\ ~typed THEN candidates
       ELSE IF /\ entry.type = "string"
               /\ isValidDomain(entry.chars)
               /\ toLowerChars(entry.chars) \notin Range(candidates)
         THEN pushValid(Tail(entries), Append(candidates, createCandidate(entry.chars)), typed)
         ELSE pushValid(Tail(entries), candidates, typed)

\* parseToolCall (driver.ts) on the domains array of the tool call
driverParseToolCall(domains) == pushValid(domains, <<>>, TRUE)

\* parseCandidates (driver.ts) on a content whose JSON object has the array
\* domains and in which domainPattern finds the strings matches
parseCandidates(domains, matches) ==
  LET candidates == pushValid(domains, <<>>, FALSE)
  IN  IF candidates = <<>> THEN pushValid(matches, <<>>, FALSE) ELSE candidates

\* options.count || 50
COUNT == 50

RECURSIVE filterChecked(_, _)
filterChecked(candidates, checkedSet) ==
  IF candidates = <<>> THEN <<>>
  ELSE IF toLowerChars(Head(candidates)) \in checkedSet
    THEN filterChecked(Tail(candidates), checkedSet)
    ELSE <<Head(candidates)>> \o filterChecked(Tail(candidates), checkedSet)

\* generateCandidates (driver.ts) from the reply it parses to its return value
returnCandidates(response, previousResults) ==
  LET candidates == IF response.via = "tool" THEN driverParseToolCall(response.domains)
                    ELSE parseCandidates(response.domains, response.matches)
      filteredCandidates == IF previousResults.given
                              THEN filterChecked(candidates, previousResults.checkedSet)
                              ELSE candidates
  IN  SubSeq(filteredCandidates, 1, IF Len(filteredCandidates) < COUNT
                                      THEN Len(filteredCandidates) ELSE COUNT)

\* the strings of the replies: valid names, spellings in upper case, and one
\* string for each way of failing isValidDomain
chars63 == [i \in 1..63 |-> "a"]
SampleStrings ==
  {<<"o", "a", "k", ".", "c", "o", "m">>,
   <<"O", "A", "K", ".", "c", "o", "m">>,
   <<"o", "a", "k", ".", "C", "O", "M">>,
   <<"x", ".", "y", "z">>,
   <<"a", "-", "9", ".", "i", "o">>,
   <<"a", ".", "b", "!", ".", "i", "o">>,
   chars63 \o <<".", "i", "o">>,
   <<>>,
   <<"a", ".", "b">>,
   <<"o", "a", "k", "c", "o", "m">>,
   <<"o", "a", "k", ".", "c">>,
   <<"o", "a", "k", ".", "c", "0", "m">>,
   <<".", "c", "o", "m">>,
   <<"-", "o", "k", ".", "i", "o">>,
   <<"o", "k", "-", ".", "i", "o">>,
   <<"o", "_", "k", ".", "i", "o">>,
   <<"a">> \o chars63 \o <<".", "i", "o">>}
SampleEntries ==
  {[type |-> "string", chars |-> str] : str \in SampleStrings} \cup
  {[type |-> "null", chars |-> <<>>], [type |-> "number", chars |-> <<>>]}

\* a reply of n distinct valid names
bulkEntries(n) ==
  [i \in 1..n |-> [type |-> "string",
                   chars |-> <<lowerLetters[((i - 1) \div 9) + 1], digits[((i - 1) % 9) + 2],
                               ".", "i", "o">>]]
BulkSizes == {49, 50, 51}

\* the domains array of a reply, and what domainPattern finds in a content
DomainLists ==
  {<<>>} \cup {<<e>> : e \in SampleEntries}
         \cup {<<e1, e2>> : e1 \in SampleEntries, e2 \in SampleEntries}
         \cup {bulkEntries(n) : n \in BulkSizes}
         \cup {<<e>> \o bulkEntries(n) : e \in SampleEntries, n \in BulkSizes}
MatchLists ==
  {<<>>} \cup {<<[type |-> "string", chars |-> str]>> : str \in SampleStrings}
         \cup {bulkEntries(n) : n \in BulkSizes}

DriverResponses ==
  {[via |-> "tool", domains |-> l, matches |-> <<>>] : l \in DomainLists} \cup
  {[via |-> "content", domains |-> l, matches |-> m] : l \in DomainLists, m \in MatchLists}

\* options.previousResults: absent in batch 1, later the tried_summary's names
PreviousResults ==
  {[given |-> FALSE, checkedSet |-> {}],
   [given |-> TRUE, checkedSet |-> {<<"o", "a", "k", ".", "c", "o", "m">>, <<"a", "1", ".", "i", "o">>}]}

DriverInit ==
  /\ NoJob
  /\ \E response \in DriverResponses, previousResults \in PreviousResults :
       agent_call = [fn |-> "generateCandidates", state |-> "called",
                     response |-> response, previousResults |-> previousResults,
                     candidates |-> <<>>]

\* generateCandidates returns
driverReturns ==
  /\ agent_call.fn = "generateCandidates" /\ agent_call.state = "called"
  /\ agent_call' = [agent_call EXCEPT
                      !.state = "returned",
                      !.candidates = returnCandidates(agent_call.response,
                                                      agent_call.previousResults)]
  /\ UNCHANGED <<store, alarm_set, pc, batch, resume_waiting, reply,
                 resumes_issued, cancel_batch, restarted>>

DriverNext == driverReturns

DriverSpec == DriverInit /\ [][DriverNext]_vars

\* ---- evaluateDomains and its chunk calls (swarm.ts)
\* The domains of the list are its positions 1..n.
chunkSize == 10
maxConcurrent == 12

\* for (let i = 0; i < domains.length; i += chunkSize)
\*   chunks.push(domains.slice(i, i + chunkSize))
RECURSIVE chunksFrom(_, _)
chunksFrom(i, n) ==
  IF i < n
    THEN <<{d \in 1..n : i < d /\ d <= i + chunkSize}>> \o chunksFrom(i + chunkSize, n)
    ELSE <<>>

\* a dispatch of all remaining chunks at once
waveFrom_All(chunks, i) == {k \in DOMAIN chunks : i < k}

\* chunks.slice(i, i + maxConcurrent), as chunk numbers
waveFrom(chunks, i) == {k \in DOMAIN chunks : i < k /\ k <= i + maxConcurrent}

\* domains.length of the calls
DomainCounts == {0, 1, 10, 11, 50, 120, 121}

SwarmInit ==
  /\ NoJob
  /\ \E n \in DomainCounts :
       agent_call = [fn |-> "evaluateDomains", state |-> "called", n |-> n,
                     chunks |-> <<>>, i |-> 0, in_flight |-> {}, results |-> {}]

\* evaluateDomains up to its first await: an empty list returns at once,
\* otherwise the first maxConcurrent chunks are passed to evaluateChunk
evaluateDomainsStarts ==
  /\ agent_call.fn = "evaluateDomains" /\ agent_call.state = "called"
  /\ agent_call' =
       IF agent_call.n = 0
         THEN [agent_call EXCEPT !.state = "returned"]
         ELSE LET chunks == chunksFrom(0, agent_call.n)
              IN  [agent_call EXCEPT !.state = "waiting", !.chunks = chunks,
                                     !.in_flight = waveFrom(chunks, 0)]
  /\ UNCHANGED <<store, alarm_set, pc, batch, resume_waiting, reply,
                 resumes_issued, cancel_batch, restarted>>

\* the promise of one evaluateChunk call settles.  A rejection (the fallback
\* call raised) rejects Promise.all at once, and evaluateDomains raises while
\* the other calls of the wave are still in flight; when the last call of a
\* wave is fulfilled the results are pushed and the next wave is dispatched,
\* or evaluateDomains returns
chunkSettles(c, fulfilled) ==
  /\ agent_call.fn = "evaluateDomains" /\ c \in agent_call.in_flight
  /\ LET rest == agent_call.in_flight \ {c}
         wave == waveFrom(agent_call.chunks, agent_call.i)
         next == agent_call.i + maxConcurrent
     IN  agent_call' =
           IF agent_call.state # "waiting"
             THEN [agent_call EXCEPT !.in_flight = rest]
           ELSE IF ~fulfilled
             THEN [agent_call EXCEPT !.in_flight = rest, !.state = "raised"]
           ELSE IF rest # {}
             THEN [agent_call EXCEPT !.in_flight = rest]
           ELSE IF next < Len(agent_call.chunks)
             THEN [agent_call EXCEPT !.results = @ \cup wave, !.i = next,
                                     !.in_flight = waveFrom(agent_call.chunks, next)]
           ELSE [agent_call EXCEPT !.results = @ \cup wave, !.in_flight = rest,
                                   !.state = "returned"]
  /\ UNCHANGED <<store, alarm_set, pc, batch, resume_waiting, reply,
                 resumes_issued, cancel_batch, restarted>>

SwarmNext ==
  \/ evaluateDomainsStarts
  \/ \E c \in DOMAIN agent_call.chunks, fulfilled \in BOOLEAN : chunkSettles(c, fulfilled)

SwarmSpec == SwarmInit /\ [][SwarmNext]_vars

\* ------------------------------------------------------------ claims
JobError == IF HasJob(search_job) THEN getJob(search_job).error ELSE Null
JobFollowup == IF HasJob(search_job) THEN getJob(search_job).followup_responses ELSE Null

\* the status changes of the state machine of section 4.1
MachineTransitions ==
  {<<"none", "running">>, <<"running", "complete">>, <<"running", "needs_followup">>,
   <<"running", "failed">>, <<"running", "cancelled">>, <<"needs_followup", "running">>}

\* C1: every change of the job's status is one of the six transitions of the
\* state machine; complete, failed and cancelled are never left.
C1_StatusTransitions ==
  [][JobStatus' # JobStatus => <<JobStatus, JobStatus'>> \in MachineTransitions]_vars

\* C2: once /cancel was accepted during a batch, no later batch is started
\* (batch_num stays at that batch), and when that batch is over the status
\* is cancelled.
C2_CancelInFlightSticks ==
  cancel_batch > 0 =>
    /\ JobBatchNum = cancel_batch
    /\ (~InBatch => JobStatus = "cancelled")

\* C3: batch_num never exceeds MAX_BATCHES.
C3_BatchNumBounded == JobBatchNum <= MAX_BATCHES

\* steps of alarm(): processBatch raises because the generator raised ...
GeneratorRaises ==
  /\ pc = "generate"
  /\ \E c \in CallCases(DriverOutcomes(getJob(search_job).quiz_responses)) :
        /\ generateCandidates(c.supportsTools, c.toolCall, c.fallbackCall,
                              batch.batchNum, batch.checked).raised
        /\ generateReturns(c.supportsTools, c.toolCall, c.fallbackCall)

\* ... or because every evaluator call made for the chunk raised
EvaluatorFails ==
  /\ pc = "evaluate"
  /\ \E c \in CallCases(SwarmOutcomes(getJob(search_job).quiz_responses)) :
        /\ c.fallbackCall.raises
        /\ (c.supportsTools => c.toolCall.raises)
        /\ evaluateReturns(c.supportsTools, c.toolCall, c.fallbackCall)

\* an exception escapes processBatch
BatchRaises ==
  \/ GeneratorRaises
  \/ EvaluatorFails
  \/ rdapReturns(TRUE, {})

\* processBatch returns its BatchResult and alarm() decides
BatchReturns == InBatch /\ pc' \in {"idle", "email"} /\ ~BatchRaises

\* the priority order of the decision, with the third outcome as
\* `outcome3(status before, status after)`
DecisionOrder(outcome3(_, _)) ==
  LET good == getGoodResultsCount(domain_results')
      complete == JobStatus' = "complete" /\ alarm_set' = alarm_set
      followup == JobStatus' = "needs_followup" /\ alarm_set' = alarm_set
      rearm == outcome3(JobStatus, JobStatus') /\ alarm_set'
                 /\ JobStatus' \notin {"complete", "needs_followup"}
  IN  /\ good >= TARGET_RESULTS => complete
      /\ good < TARGET_RESULTS /\ JobBatchNum' >= MAX_BATCHES => followup
      /\ good < TARGET_RESULTS /\ JobBatchNum' < MAX_BATCHES => rearm
      /\ ~(complete /\ followup) /\ ~(complete /\ rearm) /\ ~(followup /\ rearm)

StaysRunning(before, after) == after = "running"
StaysAsItIs(before, after) == after = before

\* C4 as claimed: after a normal return the handler completes the job when
\* good results >= TARGET_RESULTS, else asks for follow-up when batch_num >=
\* MAX_BATCHES, else the status stays running and the alarm is re-armed.
C4_DecisionStaysRunning == [][BatchReturns => DecisionOrder(StaysRunning)]_vars

\* C4 as amended: the same priority order; in the third outcome the handler
\* leaves the status as it finds it (running, or cancelled when /cancel was
\* accepted during the batch) and re-arms the alarm.
C4_DecisionOrder == [][BatchReturns => DecisionOrder(StaysAsItIs)]_vars

\* the job completes in the batch that also exhausts the batch budget
C4_Witness == JobStatus = "complete" /\ JobBatchNum = MAX_BATCHES /\ JobFollowup = Null

\* C5: under fair alarms and returning calls a running job leaves running, and
\* a job not yet resumed runs at most MAX_BATCHES batches: while it is running
\* batch_num <= MAX_BATCHES, and at MAX_BATCHES that last batch is in flight.
C5_LeavesRunning ==
  /\ (JobStatus = "running") ~> (JobStatus # "running")
  /\ [](JobStatus = "running" /\ JobFollowup = Null =>
          JobBatchNum <= MAX_BATCHES /\ (JobBatchNum = MAX_BATCHES => InBatch))

\* the job used its whole budget and left running for needs_followup
C5_Witness ==
  JobStatus = "needs_followup" /\ JobBatchNum = MAX_BATCHES /\ JobFollowup = Null

\* C6: when an exception escapes processBatch the status becomes failed with a
\* non-empty error, the alarm is not re-armed, and once an error is recorded
\* no batch is started again.
C6_FailedIsFinal ==
  [][/\ BatchRaises =>
          JobStatus' = "failed" /\ JobError' \notin {Null, ""} /\ alarm_set' = alarm_set
     /\ JobError # Null => ~(pc = "idle" /\ pc' = "generate")]_vars

\* C7: when the generator's calls raise, the job does not become failed: a
\* running job stays running and, below MAX_BATCHES, the alarm is re-armed.
C7_GeneratorFailureAbsorbed ==
  [][GeneratorRaises =>
       /\ JobStatus' # "failed"
       /\ (JobStatus = "running" => JobStatus' = "running")
       /\ (JobBatchNum < MAX_BATCHES => alarm_set')]_vars

\* C8: when the evaluator's calls for a chunk raise, the chunk is evaluated by
\* quickEvaluate and the job does not become failed.
C8_EvaluatorFailureAbsorbed ==
  [][EvaluatorFails =>
       /\ JobStatus' # "failed"
       /\ (pc' = "rdap" =>
             batch'.evaluations = {quickEvaluate(d) : d \in batch.newCandidates})]_vars

C11_CancelGuard ==
  [][handleCancel /\ HasJob(search_job) =>
       IF JobStatus \in {"pending", "running"}
         THEN /\ reply' = [op |-> "cancel", code |-> 200]
              /\ search_job' = {[getJob(search_job) EXCEPT !.status = "cancelled"]}
              /\ UNCHANGED <<domain_results, search_artifacts, alarm_set>>
         ELSE /\ reply' = [op |-> "cancel", code |-> 400]
              /\ UNCHANGED <<store, alarm_set>>]_vars

\* a /cancel was refused on a job waiting for follow-up
C11_Witness == reply = [op |-> "cancel", code |-> 400] /\ JobStatus = "needs_followup"

\* C12: a timer firing that finds the job running starts one batch and adds one
\* to batch_num; nothing else changes batch_num; a batch started after a
\* /resume has the batch number one above the one the job was resumed at.
C12_OneBatchPerTimer ==
  [][/\ alarm /\ JobStatus = "running" =>
          /\ pc' = "generate" /\ JobBatchNum' = JobBatchNum + 1
          /\ batch'.batchNum = JobBatchNum'
     /\ JobBatchNum' # JobBatchNum => alarm /\ JobStatus = "running"
     /\ pc' = "generate" /\ pc # "generate" => alarm /\ JobStatus = "running"]_vars

\* the batch after the first /resume is in flight, one above MAX_BATCHES
C12_Witness ==
  /\ pc = "generate" /\ resumes_issued = 1 /\ resume_waiting = 0
  /\ JobBatchNum = MAX_BATCHES + 1

\* C13: a timer firing that finds no job, or a status other than running,
\* changes no table, starts no batch and leaves no alarm armed.
C13_TimerNoOp ==
  [][alarm /\ JobStatus # "running" =>
       /\ UNCHANGED <<store, pc, batch>>
       /\ ~alarm_set']_vars

\* the alarm of /start fired after /cancel: cancelled, no batch, nothing armed
C13_Witness ==
  /\ JobStatus = "cancelled" /\ JobBatchNum = 0 /\ ~alarm_set
  /\ domain_results = {} /\ search_artifacts = <<>>

\* C14: whenever the status is complete or needs_followup,
\* 1 <= batch_num <= MAX_BATCHES.
C14_TerminalBatchNum ==
  JobStatus \in {"complete", "needs_followup"} =>
    1 <= JobBatchNum /\ JobBatchNum <= MAX_BATCHES

\* C19: a batch starts only while no batch is in flight and no alarm handler
\* is suspended, and only by a timer firing: at most one processBatch runs.
C19_OneBatchInFlight ==
  [][pc' = "generate" /\ batch'.batchNum # batch.batchNum =>
       /\ pc = "idle" /\ batch = NoBatch
       /\ alarm]_vars

\* a /resume was accepted while the handler that set needs_followup awaits
\* its e-mail call: the alarm is armed and waits for the handler to end
C19_Witness ==
  /\ pc = "email" /\ JobStatus = "running" /\ alarm_set
  /\ reply = [op |-> "resume", code |-> 200]

\* C15: domain_results never holds two rows for the same lowercase domain.
C15_OneRowPerDomain ==
  \A r1 \in domain_results : \A r2 \in domain_results :
     toLowerCase(r1.domain) = toLowerCase(r2.domain) => r1 = r2

\* batch 1 stored rows and wrote its report, and every row now carries batch 2:
\* the rows of batch 1 were replaced
C15_Witness ==
  /\ domain_results # {}
  /\ \A r \in domain_results : r.batch_num = 2
  /\ \E i \in 1..Len(search_artifacts) :
        search_artifacts[i].artifact_type = "batch_report" /\ search_artifacts[i].batch_num = 1

\* C16: every row a step writes carries the number of the batch in flight; if
\* that batch looked the domain up, the row has the status the lookup
\* returned, and if it did not, the row has status unknown.  So a row is
\* available only by a lookup of its domain in the batch that wrote it.
C16_AvailableFromLookup ==
  [][\A r \in domain_results' \ domain_results :
        /\ r.batch_num = batch.batchNum
        /\ IF \E x \in batch.rdapResults : x.domain = r.domain
             THEN \E x \in batch.rdapResults : x.domain = r.domain /\ x.status = r.status
             ELSE r.status = "unknown"]_vars

\* one batch stored a looked-up available row and a row that was not looked up
C16_Witness ==
  \E r1 \in domain_results : \E r2 \in domain_results :
     /\ r1.batch_num = r2.batch_num
     /\ r1.status = "available" /\ r2.status = "unknown" /\ r2.score = 30

\* C17: the good_results of a /status snapshot is the number of rows with
\* status available and score >= 0.8, and the alarm handler completes the job
\* after a batch exactly when that number is at least TARGET_RESULTS.
C17_GoodResultsCount ==
  [][/\ handleGetStatus /\ HasJob(search_job) =>
          reply'.body.good_results =
            Cardinality({r \in domain_results : r.status = "available" /\ r.score >= 80})
     /\ BatchReturns =>
          (JobStatus' = "complete" <=>
             Cardinality({r \in domain_results' : r.status = "available" /\ r.score >= 80})
               >= TARGET_RESULTS)]_vars

\* a snapshot with an available row that scores below 0.8 and is not counted
C17_Witness ==
  /\ reply.op = "status" /\ reply.code = 200
  /\ reply.body.domains_available = 1 /\ reply.body.good_results = 0
  /\ \E r \in domain_results : r.status = "available" /\ r.score >= 40

\* C18: the stored token counters never decrease, and a /status snapshot
\* reports the stored counters.
C18_TokensMonotone ==
  [][/\ HasJob(search_job) =>
          /\ getTokenUsage(search_job').input >= getTokenUsage(search_job).input
          /\ getTokenUsage(search_job').output >= getTokenUsage(search_job).output
     /\ handleGetStatus /\ HasJob(search_job) =>
          /\ reply'.body.input_tokens = getJob(search_job).total_input_tokens
          /\ reply'.body.output_tokens = getJob(search_job).total_output_tokens]_vars

\* a snapshot taken in the second batch, after a provider call reported tokens
C18_Witness ==
  /\ reply.op = "status" /\ reply.code = 200
  /\ reply.body.batch_num = 2 /\ reply.body.input_tokens = 1 /\ reply.body.output_tokens = 2

\* the job has entered needs_followup: it is there, or a /resume passed the
\* status check (which only needs_followup passes)
EnteredFollowup == JobStatus = "needs_followup" \/ resumes_issued > 0

\* the followup_quiz row stored last
lastQuiz(arts) == followupQuizzes(arts)[Len(followupQuizzes(arts))]

\* C20: /followup answers 200 exactly when the job has entered needs_followup,
\* else 404; whenever the status is needs_followup a followup_quiz row exists;
\* and the artifact /followup returns is the followup_quiz row stored last.
C20_FollowupQuiz ==
  [][/\ handleGetFollowup /\ HasJob(search_job) =>
          /\ reply'.code = (IF EnteredFollowup THEN 200 ELSE 404)
          /\ reply'.code = 200 =>
                reply'.body = [batch_num |-> lastQuiz(search_artifacts).batch_num,
                               content |-> lastQuiz(search_artifacts).content]
     /\ JobStatus' = "needs_followup" => followupQuizzes(search_artifacts') # <<>>]_vars

\* C21: followup_responses, once written, is never written with another value.
C21_FollowupWrittenOnce ==
  [][JobFollowup # Null => JobFollowup' = JobFollowup]_vars

\* the batch_report rows of batch n
batchReports(arts, n) ==
  {i \in 1..Len(arts) : arts[i].artifact_type = "batch_report" /\ arts[i].batch_num = n}

\* C25: when the bulk pricing call of a batch raises, the job does not fail,
\* the batch ends as a returning batch (its report is written, the alarm
\* handler decides), the rows of the batch carry exactly the statuses the
\* availability check reported, and every domain it reported available is
\* stored available with a null price.
C25_PricingFailureTolerated ==
  [][pricingReturns(TRUE, {}) =>
       /\ JobStatus' # "failed" /\ JobError' = JobError
       /\ pc' \in {"idle", "email"}
       /\ Cardinality(batchReports(search_artifacts', batch.batchNum)) =
            Cardinality(batchReports(search_artifacts, batch.batchNum)) + 1
       /\ \A r \in batch.rdapResults :
            \E row \in domain_results' :
               /\ row.domain = r.domain /\ row.status = r.status
               /\ row.batch_num = batch.batchNum
               /\ row.price_cents = NullPrice]_vars

\* the pricing call failed for a domain found available: the row is available
\* without a price, the report of its batch is written, the job has not failed
C25_Witness ==
  /\ \E row \in domain_results : row.status = "available" /\ row.price_cents = NullPrice
  /\ \A row \in domain_results : row.price_cents = NullPrice
  /\ JobStatus = "complete" /\ pc = "idle"
  /\ batchReports(search_artifacts, JobBatchNum) # {}

\* C27: a processBatch that returns without raising has stored exactly one
\* batch_report artifact with its batch number.
C27_OneReportPerBatch ==
  [][BatchReturns => Cardinality(batchReports(search_artifacts', batch.batchNum)) = 1]_vars

\* the evaluations of the batch in flight that the filter rejected
rejected(b) == b.evaluations \ filterWorthChecking(b.evaluations)

\* the rejected evaluations of batch b have their unknown rows in table dr
rejectedStored(b, dr) ==
  \A e \in rejected(b) :
     \E row \in dr : /\ row.domain = e.domain /\ row.status = "unknown"
                      /\ row.batch_num = b.batchNum

\* C28: while the availability check of a batch is awaited, the candidates the
\* filter rejected in that batch are in domain_results with status unknown; so
\* they are there when the availability check raises.
C28_RejectedBeforeCheck ==
  [][/\ pc' = "rdap" => rejectedStored(batch', domain_results')
     /\ rdapReturns(TRUE, {}) => rejectedStored(batch, domain_results')]_vars

\* C29: the domains whose availability a batch checks are evaluated domains
\* with worth_checking and score >= 0.4; an evaluated domain that fails the
\* test has no availability result in the batch and, when the batch is over
\* (returned or raised), is stored with status unknown.
C29_OnlyWorthChecked ==
  [][/\ \A r \in batch'.rdapResults :
          \E e \in batch'.evaluations :
             e.domain = r.domain /\ e.worthChecking /\ e.score >= 40
     /\ \A e \in rejected(batch') : \A r \in batch'.rdapResults : r.domain # e.domain
     /\ InBatch /\ ~InBatch' => rejectedStored(batch, domain_results')
     /\ EvaluateStep /\ ~InBatch' /\ ~EvaluatorFails =>
          \A row \in domain_results' \ domain_results : row.status = "unknown"]_vars

\* the lowercase domains domain_results held when batch b started
storedBefore(b) == {toLowerCase(d) : d \in b.checked}

\* C30: the domains a batch evaluates, checks or writes are absent, in
\* lowercase, from the domains domain_results held when the batch started.
C30_NoDomainTwice ==
  [][/\ \A e \in batch'.evaluations : toLowerCase(e.domain) \notin storedBefore(batch')
     /\ \A r \in batch'.rdapResults : toLowerCase(r.domain) \notin storedBefore(batch')
     /\ InBatch =>
          \A row \in domain_results' \ domain_results :
             toLowerCase(row.domain) \notin storedBefore(batch)]_vars

\* the /status fields of the claim, computed from the tables
StoredSnapshot ==
  [status |-> JobStatus, batch_num |-> JobBatchNum,
   domains_checked |-> Cardinality(domain_results),
   domains_available |-> Cardinality({r \in domain_results : r.status = "available"}),
   good_results |-> Cardinality({r \in domain_results : r.status = "available" /\ r.score >= 80}),
   input_tokens |-> IF HasJob(search_job) THEN getJob(search_job).total_input_tokens ELSE 0,
   output_tokens |-> IF HasJob(search_job) THEN getJob(search_job).total_output_tokens ELSE 0]

\* C22: a restart between batches leaves the tables' snapshot and the pending
\* alarm as they were, and /status answers with the snapshot of the tables
\* whatever the in-memory state is; so /status before and after a restart
\* reports the same status, batch_num, counts and token counters.
C22_SnapshotFromStore ==
  [][/\ restart => StoredSnapshot' = StoredSnapshot /\ alarm_set' = alarm_set
     /\ handleGetStatus /\ HasJob(search_job) =>
          reply'.code = 200 /\ reply'.body = StoredSnapshot]_vars

\* /status was answered after a restart, for a job that has stored a domain
\* and waits for the alarm of its next batch
C22_Witness ==
  /\ restarted /\ reply.op = "status" /\ reply.code = 200
  /\ reply.body.batch_num = 1 /\ reply.body.domains_checked = 1
  /\ reply.body.status = "running" /\ alarm_set /\ pc = "idle"

\* row a ranks before row b in the order of the claim: higher score, or equal
\* score and a price where b has none or a higher one
ranksBefore(a, b) ==
  \/ a.score > b.score
  \/ /\ a.score = b.score /\ a.price_cents # NullPrice
     /\ (b.price_cents = NullPrice \/ a.price_cents < b.price_cents)

\* a row of the /results list without the fields /results adds
storedRow(d) ==
  [batch_num |-> d.batch_num, domain |-> d.domain, status |-> d.status,
   price_cents |-> d.price_cents, score |-> d.score]

\* C23: the list of /results has at most fifty rows, each a stored available
\* row, none twice; no row of the list ranks before a row that precedes it
\* (non-increasing score; within a score ascending price, rows without price
\* last); and no available row left out ranks before a row of the list.
C23_ResultsRanked ==
  [][handleGetResults /\ HasJob(search_job) =>
       LET ds == reply'.body.domains
       IN  /\ reply'.code = 200
           /\ Len(ds) <= 50
           /\ \A i \in 1..Len(ds) :
                /\ ds[i].status = "available" /\ storedRow(ds[i]) \in domain_results
                /\ \A j \in (i + 1)..Len(ds) :
                     /\ ds[i].domain # ds[j].domain
                     /\ ds[i].score >= ds[j].score
                     /\ ~ranksBefore(ds[j], ds[i])
           /\ \A r \in domain_results :
                r.status = "available" /\ (\A i \in 1..Len(ds) : storedRow(ds[i]) # r) =>
                  \A i \in 1..Len(ds) : ~ranksBefore(r, ds[i])]_vars

\* a full list cut from more than fifty available rows, in which a row
\* without a price follows a priced row of the same score
C23_Witness ==
  /\ reply.op = "results" /\ reply.code = 200
  /\ Len(reply.body.domains) = 50
  /\ Cardinality({r \in domain_results : r.status = "available"}) > 50
  /\ \E i \in 1..49 :
        /\ reply.body.domains[i].score = reply.body.domains[i + 1].score
        /\ reply.body.domains[i].price_cents # NullPrice
        /\ reply.body.domains[i + 1].price_cents = NullPrice

\* the category of the claim: unknown exactly for a null price, else by the
\* limits 3000 and 5000
claimedCategory(price_cents) ==
  IF price_cents = NullPrice THEN "unknown"
  ELSE IF price_cents <= 3000 THEN "bundled"
  ELSE IF price_cents <= 5000 THEN "recommended"
  ELSE "premium"

\* C24: every row of /results shows the category of the claim for its price,
\* and pricing_summary counts every available row under that same category.
C24_PricingCategory ==
  [][handleGetResults /\ HasJob(search_job) =>
       /\ \A i \in 1..Len(reply'.body.domains) :
            reply'.body.domains[i].pricing_category =
              claimedCategory(reply'.body.domains[i].price_cents)
       /\ \A c \in {"unknown", "bundled", "recommended", "premium"} :
            reply'.body.pricing_summary[c] =
              Cardinality({r \in domain_results :
                 r.status = "available" /\ claimedCategory(r.price_cents) = c})]_vars

\* C26: a /status, /results, /followup or /stream request changes neither the
\* job row, the domain_results rows, the artifacts nor the pending alarm, in
\* any status; without a job it answers 404 and creates none.
C26_ReadsArePure ==
  [][Reads =>
       /\ UNCHANGED <<search_job, domain_results, search_artifacts, alarm_set>>
       /\ ~HasJob(search_job) => reply'.code = 404 /\ ~HasJob(search_job')
       /\ HasJob(search_job) /\ reply'.op # "followup" => reply'.code = 200]_vars

\* /followup answered 404 for a cancelled job whose alarm is still pending
C26_Witness ==
  /\ reply = [op |-> "followup", code |-> 404]
  /\ JobStatus = "cancelled" /\ alarm_set

\* the rows with status available and score >= 0.8 in table dr
goodRows(dr) == {r \in dr : r.status = "available" /\ r.score >= 80}

\* C35: a resumed job is at or past its batch budget, and when a batch of a
\* resumed, running job returns, the handler never re-arms the alarm: the job
\* completes if the good results reach the target, and otherwise returns to
\* needs_followup at once with one more followup_quiz artifact, of that batch.
C35_ResumeRunsOneBatch ==
  [][/\ JobFollowup' # Null => JobBatchNum' >= MAX_BATCHES
     /\ BatchReturns /\ JobFollowup # Null /\ JobStatus = "running" =>
          /\ alarm_set' = alarm_set
          /\ IF Cardinality(goodRows(domain_results')) >= TARGET_RESULTS
               THEN JobStatus' = "complete"
               ELSE /\ JobStatus' = "needs_followup"
                    /\ Len(followupQuizzes(search_artifacts')) =
                         Len(followupQuizzes(search_artifacts)) + 1
                    /\ lastQuiz(search_artifacts').batch_num = batch.batchNum]_vars

\* after one /resume the job ran batch MAX_BATCHES + 1 and is back in
\* needs_followup with a second quiz
C35_Witness ==
  /\ JobStatus = "needs_followup" /\ JobFollowup # Null /\ resumes_issued = 1
  /\ JobBatchNum = MAX_BATCHES + 1
  /\ Len(followupQuizzes(search_artifacts)) = 2

\* C36: whenever the status is running, an alarm is pending or a batch is in
\* flight in the alarm handler.
C36_RunningIsDriven == JobStatus = "running" => alarm_set \/ InBatch

\* a resumed job is running with its alarm pending and no batch in flight
C36_Witness ==
  /\ JobStatus = "running" /\ JobFollowup # Null /\ alarm_set /\ pc = "idle"

\* C37: a complete job has at least TARGET_RESULTS rows with status available
\* and score >= 0.8; a job in needs_followup has fewer, and batch_num >=
\* MAX_BATCHES.
C37_DecisionMatchesStore ==
  /\ JobStatus = "complete" => Cardinality(goodRows(domain_results)) >= TARGET_RESULTS
  /\ JobStatus = "needs_followup" =>
        /\ Cardinality(goodRows(domain_results)) < TARGET_RESULTS
        /\ JobBatchNum >= MAX_BATCHES

\* a job in needs_followup that holds an available row scoring below 0.8
C37_Witness ==
  /\ JobStatus = "needs_followup"
  /\ \E r \in domain_results : r.status = "available" /\ r.score < 80

\* C38: the error field is non-null exactly when the status is failed, and a
\* failed job keeps its status and its error.
C38_ErrorIffFailed ==
  [][/\ JobError' # Null <=> JobStatus' = "failed"
     /\ JobStatus = "failed" => JobStatus' = "failed" /\ JobError' = JobError]_vars

\* the sum of the new_good_results of the batch reports
RECURSIVE sumReports(_)
sumReports(arts) ==
  IF arts = <<>> THEN 0
  ELSE (IF Head(arts).artifact_type = "batch_report" THEN Head(arts).content ELSE 0)
       + sumReports(Tail(arts))

\* C39: the new_good_results of a batch's report is the number of rows that
\* batch stored with status available and score >= 0.8, and between batches the
\* reports' new_good_results add up to the good_results of /status.
C39_ReportCountsGood ==
  [][/\ \A i \in batchReports(search_artifacts', batch.batchNum)
               \ batchReports(search_artifacts, batch.batchNum) :
          search_artifacts'[i].content =
            Cardinality({r \in goodRows(domain_results') : r.batch_num = batch.batchNum})
     /\ pc' = "idle" =>
          sumReports(search_artifacts') = getGoodResultsCount(domain_results')]_vars

\* C40: no step removes a row, replaces an available row by a row of another
\* status or of a lower score, or lowers the good_results or domains_checked
\* of /status.
C40_ResultsNeverShrink ==
  [][/\ \A r \in domain_results :
          \E r2 \in domain_results' :
             /\ r2.domain = r.domain
             /\ r.status = "available" => r2.status = "available" /\ r2.score >= r.score
     /\ getGoodResultsCount(domain_results') >= getGoodResultsCount(domain_results)
     /\ getTotalDomainsChecked(domain_results') >= getTotalDomainsChecked(domain_results)]_vars

\* C31: when evaluateDomains returns, its records are one for each requested
\* domain and none for another domain (seen in the evaluations processBatch
\* keeps, or in the rows it writes when nothing is worth checking).
C31_OneRecordPerRequested ==
  [][EvaluateStep /\ ~EvaluatorFails =>
       IF pc' = "rdap"
         THEN /\ {e.domain : e \in batch'.evaluations} = batch.newCandidates
              /\ Cardinality(batch'.evaluations) = Cardinality(batch.newCandidates)
         ELSE {row.domain : row \in domain_results' \ domain_results}
                \subseteq batch.newCandidates]_vars

\* C32: every domain_results row has a score within [0, 1] (0..100 hundredths),
\* whatever scores the evaluator model returns.
C32_ScoreInUnitInterval ==
  \A r \in domain_results : 0 <= r.score /\ r.score <= 100

\* the validation rule as the specification states it, on a lowercase string
validationRule(str) ==
  /\ Len(str) >= 4
  /\ \E i \in DOMAIN str : str[i] = "."
  /\ Len(lastPart(str)) >= 2
  /\ \A i \in DOMAIN lastPart(str) : lastPart(str)[i] \in Range(lowerLetters)
  /\ Len(firstPart(str)) >= 1 /\ Len(firstPart(str)) <= 63
  /\ alnum(firstPart(str)[1]) /\ alnum(firstPart(str)[Len(firstPart(str))])
  /\ \A i \in DOMAIN firstPart(str) : alnum(firstPart(str)[i]) \/ firstPart(str)[i] = "-"

\* C34: generateCandidates returns at most 50 candidates, all lowercase,
\* pairwise distinct, each satisfying the validation rule.
C34_CandidatesValid ==
  agent_call.fn = "generateCandidates" /\ agent_call.state = "returned" =>
    LET candidates == agent_call.candidates IN
    /\ Len(candidates) <= 50
    /\ \A i \in DOMAIN candidates :
         /\ \A k \in DOMAIN candidates[i] : candidates[i][k] \notin Range(upperLetters)
         /\ validationRule(candidates[i])
         /\ \A j \in DOMAIN candidates : candidates[i] = candidates[j] => i = j

\* a reply of 52 entries, the first of them spelled in upper case, of which
\* 50 candidates are returned, the first in lower case
C34_Witness ==
  /\ agent_call.fn = "generateCandidates" /\ agent_call.state = "returned"
  /\ Len(agent_call.response.domains) = 52
  /\ \E k \in DOMAIN agent_call.response.domains[1].chars :
        agent_call.response.domains[1].chars[k] \in Range(upperLetters)
  /\ Len(agent_call.candidates) = 50
  /\ agent_call.candidates[1] = toLowerChars(agent_call.response.domains[1].chars)

\* C33: during evaluateDomains at most 12 chunk calls are in flight, each chunk
\* holds at most 10 domains, every input domain is in exactly one chunk, and
\* when evaluateDomains returns every chunk call has completed.
C33_ChunksBounded ==
  agent_call.fn = "evaluateDomains" /\ agent_call.state # "called" =>
    /\ Cardinality(agent_call.in_flight) <= 12
    /\ \A k \in DOMAIN agent_call.chunks : Cardinality(agent_call.chunks[k]) <= 10
    /\ \A d \in 1..agent_call.n :
         Cardinality({k \in DOMAIN agent_call.chunks : d \in agent_call.chunks[k]}) = 1
    /\ agent_call.state = "returned" =>
         agent_call.in_flight = {} /\ agent_call.results = DOMAIN agent_call.chunks

\* 121 domains were evaluated in 13 chunks and two waves
C33_Witness ==
  /\ agent_call.fn = "evaluateDomains" /\ agent_call.state = "returned"
  /\ agent_call.n = 121 /\ agent_call.i = 12 /\ agent_call.results = 1..13

====
